---- MODULE Spec2Model ----
(***************************************************************************)
(* The record API of mathesar: RecordViewSet (list, retrieve, create,      *)
(* destroy) and the paginators of mathesar/api/pagination.py, over a table *)
(* held by the storage engine.                                             *)
(* The view and the paginators are translated from their code; the table   *)
(* layer they call (Table.sa_num_records, Table.get_records, GroupBy,      *)
(* process_annotated_records, the column-id rewriting) is modelled as the  *)
(* design document and the API tests describe it.                          *)
(***************************************************************************)
EXTENDS Integers, Sequences, FiniteSets, TLC

VARIABLES
    table,          \* the rows of the table, in primary-key order
    request,        \* the query parameters of the list request being served
    pc,             \* where RecordViewSet.list stands
    processed,      \* filter_processed, db_function_processed
    group_by,       \* the GroupBy object of paginate_queryset
    paginator,      \* the fields of the TableLimitOffsetGroupPagination object
    records,        \* what table.get_records returned
    engine_log,     \* the queries the storage engine has executed for the request
    response,       \* the response of the request
    rewrite_calls,  \* the calls _rewrite_db_function_specs has made
    next_id,        \* the next value of the table's primary-key sequence
    deleted,        \* the ids of the records deleted so far
    answer,         \* the last retrieve, create or destroy and its response
    waiting         \* the locals of a second list request, while it does not run

\* The locals of one call of RecordViewSet.list.
list_vars == <<request, pc, processed, group_by, paginator, records,
               engine_log, response, rewrite_calls>>

\* The state the record requests work on, besides the table.
record_vars == <<next_id, deleted, answer>>

vars == <<table, list_vars, record_vars, waiting>>

-----------------------------------------------------------------------------
(* Program constants and bounds                                            *)

default_limit == 50
max_limit == 500

\* The longest table enumerated exhaustively.
MaxRows == 3

Min(a, b) == IF a < b THEN a ELSE b
Max(a, b) == IF a > b THEN a ELSE b

-----------------------------------------------------------------------------
(* Tables                                                                  *)

Columns == {"id", "Center", "Status"}

\* Collation of the text values the tables hold.
ValueOrder == <<"", "Ames", "Application", "Armstrong", "Issued", "Kennedy">>

Rank(v) == CHOOSE i \in 1..Len(ValueOrder) : ValueOrder[i] = v

RowValues == { <<"Kennedy", "Application">>, <<"Ames", "Issued">>,
               <<"Ames", "Application">> }

MakeTable(vals) ==
    [i \in 1..Len(vals) |->
        [id |-> i, Center |-> vals[i][1], Status |-> vals[i][2]]]

SeqsUpTo(S, n) == UNION { [1..k -> S] : k \in 0..n }

SmallTables == { MakeTable(v) : v \in SeqsUpTo(RowValues, MaxRows) }

\* Six rows whose Center values read A, A, B, C, C, C.
DedupTable ==
    MakeTable(<< <<"Ames", "Issued">>, <<"Ames", "Issued">>,
                 <<"Armstrong", "Issued">>, <<"Kennedy", "Issued">>,
                 <<"Kennedy", "Issued">>, <<"Kennedy", "Issued">> >>)

\* A table one row longer than the largest page.
BigTable ==
    [i \in 1..(max_limit + 1) |-> [id |-> i, Center |-> "Ames", Status |-> "Issued"]]

Tables == SmallTables \cup {DedupTable, BigTable}

-----------------------------------------------------------------------------
(* Query parameters                                                        *)

\* A query-string parameter: absent, an integer, or text that is no integer.
Absent == [present |-> FALSE, numeric |-> FALSE, value |-> 0]
Text == [present |-> TRUE, numeric |-> FALSE, value |-> 0]
Int_(n) == [present |-> TRUE, numeric |-> TRUE, value |-> n]

\* A node of a db function specification {id: [args]}; column_id, column_name
\* and literal carry their one argument in value.
Node(id, args) == [id |-> id, args |-> args, value |-> ""]
Leaf(id, value) == [id |-> id, args |-> <<>>, value |-> value]
None == [id |-> "None", args |-> <<>>, value |-> ""]

ColumnId(c) == Leaf("column_id", c)
ColumnName(c) == Leaf("column_name", c)
Literal(v) == Leaf("literal", v)

\* Table.get_dj_column_id_to_name_mapping
column_ids_to_names == [c \in {"#1", "#2", "#3"} |->
    CASE c = "#1" -> "id" [] c = "#2" -> "Center" [] OTHER -> "Status"]

FilterAmes == Node("equal", <<ColumnId("#2"), Literal("Ames")>>)
FilterBogus == Node("bogus_op", <<ColumnId("#2")>>)
FilterBadFormat == Node("equal", <<ColumnId("#2")>>)
FilterNoColumn == Node("empty", <<ColumnName("Nope")>>)
FilterUnresolved == Node("equal", <<ColumnId("#9"), Literal("Ames")>>)
FilterNested ==
    Node("and", <<FilterAmes, Node("not", <<Node("empty", <<ColumnId("#3")>>)>>)>>)
FunctionCenter == Node("identity", <<ColumnId("#2")>>)

Asc(f) == [field |-> f, direction |-> "asc"]
Desc(f) == [field |-> f, direction |-> "desc"]

\* The grouping parameter: a JSON object with the keys it carries.
Grouping(keys, columns, mode, num_groups) ==
    [keys |-> keys, columns |-> columns, mode |-> mode, num_groups |-> num_groups]
NoGrouping == Grouping({}, <<>>, "", 0)
GroupOn(columns) == Grouping({"columns"}, columns, "", 0)
GroupPercentile(columns, n) ==
    Grouping({"columns", "mode", "num_groups"}, columns, "percentile", n)
GroupMode(columns, mode) == Grouping({"columns", "mode"}, columns, mode, 0)

-----------------------------------------------------------------------------
(* Limit and offset (LimitOffsetPagination of rest_framework, configured   *)
(* by DefaultLimitOffsetPagination)                                        *)

\* _positive_int(integer_string, strict, cutoff): int() fails on text, a
\* negative value and, when strict, zero raise ValueError; a value above the
\* cutoff is cut to it (a cutoff of 0 means none).
positive_int(param, strict, cutoff) ==
    IF ~param.numeric \/ param.value < 0 \/ (param.value = 0 /\ strict)
    THEN [ok |-> FALSE, value |-> 0]
    ELSE [ok |-> TRUE,
          value |-> IF cutoff > 0 THEN Min(param.value, cutoff) ELSE param.value]

\* A limit clamped into 1..max_limit instead.
get_limit_clamped(req) ==
    IF ~req.limit.present \/ ~req.limit.numeric THEN default_limit
    ELSE Max(1, Min(req.limit.value, max_limit))

\* get_limit: the limit parameter as a strict positive int cut off at
\* max_limit; KeyError and ValueError fall back to default_limit.
get_limit(req) ==
    IF req.limit.present /\ positive_int(req.limit, TRUE, max_limit).ok
    THEN positive_int(req.limit, TRUE, max_limit).value
    ELSE default_limit

\* get_offset: the offset parameter as a non-negative int; KeyError and
\* ValueError give 0.
get_offset(req) ==
    IF req.offset.present /\ positive_int(req.offset, FALSE, 0).ok
    THEN positive_int(req.offset, FALSE, 0).value
    ELSE 0

-----------------------------------------------------------------------------
(* Column-id rewriting                                                     *)

RECURSIVE Resolvable(_, _)
\* Every column_id of the specification is a key of the mapping.
Resolvable(spec, mapping) ==
    IF spec.id = "column_id" THEN spec.value \in DOMAIN mapping
    ELSE \A i \in 1..Len(spec.args) : Resolvable(spec.args[i], mapping)

RECURSIVE rewrite_db_function_spec_column_ids_to_names(_, _)
\* The specification with every {column_id: [id]} replaced by
\* {column_name: [name]}; every other node is rebuilt as it was.
rewrite_db_function_spec_column_ids_to_names(mapping, spec) ==
    IF spec.id = "column_id"
    THEN ColumnName(mapping[spec.value])
    ELSE [spec EXCEPT !.args =
            [i \in 1..Len(spec.args) |->
                rewrite_db_function_spec_column_ids_to_names(mapping, spec.args[i])]]

\* _rewrite_db_function_specs: nothing is looked up unless a filter or a
\* db_function is given; each one given is rewritten against the mapping.
Truthy(spec) == spec # None

\* The specifications handed on as the client gave them.
rewrite_db_function_specs_unprocessed(filter_unprocessed, db_function_unprocessed) ==
    [filter |-> filter_unprocessed, db_function |-> db_function_unprocessed]

rewrite_db_function_specs(filter_unprocessed, db_function_unprocessed) ==
    [filter |->
        IF Truthy(filter_unprocessed)
        THEN rewrite_db_function_spec_column_ids_to_names(
                 column_ids_to_names, filter_unprocessed)
        ELSE None,
     db_function |->
        IF Truthy(db_function_unprocessed)
        THEN rewrite_db_function_spec_column_ids_to_names(
                 column_ids_to_names, db_function_unprocessed)
        ELSE None]

RewriteFails(filter_unprocessed, db_function_unprocessed) ==
    \/ Truthy(filter_unprocessed)
         /\ ~Resolvable(filter_unprocessed, column_ids_to_names)
    \/ Truthy(db_function_unprocessed)
         /\ ~Resolvable(db_function_unprocessed, column_ids_to_names)

-----------------------------------------------------------------------------
(* The db function language                                                *)

\* The registry: operator id -> arity (0 for the leaves).
Registry == [id \in {"equal", "not", "and", "or", "empty", "identity",
                     "column_name", "literal"} |->
    CASE id \in {"equal", "and", "or"} -> 2
      [] id \in {"not", "empty", "identity"} -> 1
      [] OTHER -> 0]

RECURSIVE SpecErrors(_, _)
\* The validation errors of a specification against the columns of a table.
SpecErrors(spec, columns) ==
    (IF spec.id \notin DOMAIN Registry THEN {"UnknownDBFunctionID"}
     ELSE IF Len(spec.args) # Registry[spec.id] THEN {"BadDBFunctionFormat"}
     ELSE IF spec.id = "column_name" /\ spec.value \notin columns
          THEN {"ReferencedColumnsDontExist"}
     ELSE {})
    \cup UNION { SpecErrors(spec.args[i], columns) : i \in 1..Len(spec.args) }

\* The error compiling a specification raises, "" when it is valid.
SpecError(spec, columns) ==
    IF spec = None THEN ""
    ELSE LET errs == SpecErrors(spec, columns) IN
         IF "BadDBFunctionFormat" \in errs THEN "BadDBFunctionFormat"
         ELSE IF "UnknownDBFunctionID" \in errs THEN "UnknownDBFunctionID"
         ELSE IF "ReferencedColumnsDontExist" \in errs
              THEN "ReferencedColumnsDontExist"
         ELSE ""

RECURSIVE Holds(_, _)
\* Whether a row satisfies a valid predicate.
Holds(spec, row) ==
    CASE spec.id = "equal" ->
           LET a == spec.args[1]
               b == spec.args[2]
               val(x) == IF x.id = "column_name" THEN row[x.value] ELSE x.value
           IN val(a) = val(b)
      [] spec.id = "empty" -> row[spec.args[1].value] = ""
      [] spec.id = "not" -> ~Holds(spec.args[1], row)
      [] spec.id = "and" -> Holds(spec.args[1], row) /\ Holds(spec.args[2], row)
      [] spec.id = "or" -> Holds(spec.args[1], row) \/ Holds(spec.args[2], row)
      [] OTHER -> TRUE

\* The rows a filter keeps, in their order.
ApplyFilter(rows, filter) ==
    IF filter = None THEN rows
    ELSE SelectSeq(rows, LAMBDA r : Holds(filter, r))

\* The standalone function: identity over one column selects that column.
ApplyFunction(rows, db_function) ==
    IF db_function = None THEN rows
    ELSE LET c == db_function.args[1].value IN
         [i \in 1..Len(rows) |-> [k \in {c} |-> rows[i][c]]]

\* The positions of a relation, in order.
Positions(rows) == [i \in 1..Len(rows) |-> i]

\* The rows at the positions ps, in the order of ps.
Pick(rows, ps) == [k \in 1..Len(ps) |-> rows[ps[k]]]

\* Rows identical across all columns collapse to their first occurrence.
Deduplicate(rows, deduplicate) ==
    IF ~deduplicate THEN rows
    ELSE Pick(rows, SelectSeq(Positions(rows),
                              LAMBDA i : \A j \in 1..(i - 1) : rows[j] # rows[i]))

KeyOf(row, columns) == [k \in 1..Len(columns) |-> row[columns[k]]]

\* Only the rows whose values on the given columns occur more than once.
DuplicateOnly(rows, duplicate_only) ==
    IF duplicate_only = <<>> THEN rows
    ELSE Pick(rows, SelectSeq(Positions(rows),
                 LAMBDA i : \E j \in 1..Len(rows) :
                     j # i /\ KeyOf(rows[j], duplicate_only) = KeyOf(rows[i], duplicate_only)))

-----------------------------------------------------------------------------
(* Ordering                                                                *)

\* The error a sort specification raises against the columns of a relation.
SortError(order_by, columns) ==
    IF \E k \in 1..Len(order_by) : order_by[k].direction \notin {"asc", "desc"}
    THEN "BadSortFormat"
    ELSE IF \E k \in 1..Len(order_by) : order_by[k].field \notin columns
    THEN "SortFieldNotFound"
    ELSE ""

SortKey(row, field) == IF field = "id" THEN row.id ELSE Rank(row[field])

\* Row a sorts strictly before row b under the directives, taken in order.
Before(a, b, order_by) ==
    \E k \in 1..Len(order_by) :
        /\ \A m \in 1..(k - 1) :
               SortKey(a, order_by[m].field) = SortKey(b, order_by[m].field)
        /\ IF order_by[k].direction = "asc"
           THEN SortKey(a, order_by[k].field) < SortKey(b, order_by[k].field)
           ELSE SortKey(a, order_by[k].field) > SortKey(b, order_by[k].field)

\* A stable multi-key sort; with no directive the rows keep primary-key
\* order, the order the table holds them in.
OrderBy(rows, order_by) ==
    IF order_by = <<>> THEN rows
    ELSE LET n == Len(rows)
             ahead(i) == Cardinality({ j \in 1..n :
                             \/ Before(rows[j], rows[i], order_by)
                             \/ (~Before(rows[i], rows[j], order_by) /\ j < i) })
         IN [k \in 1..n |-> rows[CHOOSE i \in 1..n : ahead(i) = k - 1]]

\* The slice limit and offset select.
Window(rows, limit, offset) ==
    SubSeq(rows, offset + 1, Min(Len(rows), offset + limit))

-----------------------------------------------------------------------------
(* Grouping                                                                *)

default_num_groups == 5

GroupModes == {"distinct", "percentile"}

\* GroupBy(**grouping) if grouping else None
GroupBy(grouping) ==
    IF grouping.keys = {}
    THEN [present |-> FALSE, columns |-> <<>>, mode |-> "",
          num_groups |-> 0, ranged |-> FALSE]
    ELSE LET mode == IF "mode" \in grouping.keys THEN grouping.mode ELSE "distinct" IN
         [present |-> TRUE,
          columns |-> grouping.columns,
          mode |-> mode,
          num_groups |-> IF "num_groups" \in grouping.keys
                         THEN grouping.num_groups ELSE default_num_groups,
          ranged |-> mode # "distinct"]

\* The error a group specification raises against the columns of a relation.
GroupError(gb, columns) ==
    IF ~gb.present THEN ""
    ELSE IF gb.columns = <<>> \/ (gb.mode = "percentile" /\ gb.num_groups < 1)
    THEN "BadGroupFormat"
    ELSE IF gb.mode \notin GroupModes THEN "InvalidGroupType"
    ELSE IF \E k \in 1..Len(gb.columns) : gb.columns[k] \notin columns
    THEN "GroupFieldNotFound"
    ELSE ""

\* Tuples of grouped values compare by their components, in order.
KeyLess(a, b) ==
    \E k \in 1..Len(a) :
        /\ \A m \in 1..(k - 1) : a[m] = b[m]
        /\ Rank(a[k]) < Rank(b[k])

KeyLeq(a, b) == a = b \/ KeyLess(a, b)

NoGroup == [group_id |-> 0, count |-> 0, first_value |-> <<>>, last_value |-> <<>>]

\* The group of row i of the relation: in distinct mode the rows sharing its
\* tuple of values; in percentile mode the bucket
\* ceil(cume_dist * num_groups) of the relation ordered by the tuple.
GroupId(rows, gb, i) ==
    LET key(j) == KeyOf(rows[j], gb.columns)
        n == Len(rows)
    IN IF gb.mode = "distinct"
       THEN CHOOSE j \in 1..n : key(j) = key(i) /\ \A m \in 1..(j - 1) : key(m) # key(i)
       ELSE LET cume == Cardinality({ j \in 1..n : KeyLeq(key(j), key(i)) })
            IN (cume * gb.num_groups + n - 1) \div n

\* Every row of the relation with the statistics of its group, taken over
\* the whole relation.
Annotate(rows, gb) ==
    IF ~gb.present
    THEN [i \in 1..Len(rows) |-> [data |-> rows[i], group |-> NoGroup]]
    ELSE LET n == Len(rows)
             gid == [i \in 1..n |-> GroupId(rows, gb, i)]
             members(i) == { j \in 1..n : gid[j] = gid[i] }
             key(j) == KeyOf(rows[j], gb.columns)
         IN [i \in 1..n |->
              [data |-> rows[i],
               group |->
                 [group_id |-> gid[i],
                  count |-> Cardinality(members(i)),
                  first_value |-> key(CHOOSE j \in members(i) :
                                      \A m \in members(i) : KeyLeq(key(j), key(m))),
                  last_value |-> key(CHOOSE j \in members(i) :
                                      \A m \in members(i) : KeyLeq(key(m), key(j)))]]]

-----------------------------------------------------------------------------
(* The table's queries                                                     *)

RelationColumns(db_function) ==
    IF db_function = None THEN Columns ELSE {db_function.args[1].value}

\* The relation filter, duplicate_only, db_function and deduplicate select,
\* before ordering and windowing.
Relation(rows, filter, duplicate_only, db_function, deduplicate) ==
    Deduplicate(
        ApplyFunction(DuplicateOnly(ApplyFilter(rows, filter), duplicate_only),
                      db_function),
        deduplicate)

\* The error compiling the count query raises.
CountError(filter, db_function) ==
    IF SpecError(filter, Columns) # "" THEN SpecError(filter, Columns)
    ELSE SpecError(db_function, Columns)

\* Table.sa_num_records(filter, db_function, deduplicate)
sa_num_records(rows, filter, db_function, deduplicate) ==
    Len(Relation(rows, filter, <<>>, db_function, deduplicate))

\* The errors compiling the record query can raise.
RecordsErrors(filter, order_by, gb, db_function) ==
    IF CountError(filter, db_function) # "" THEN {CountError(filter, db_function)}
    ELSE { SortError(order_by, RelationColumns(db_function)),
           GroupError(gb, RelationColumns(db_function)) } \ {""}

\* The whole ordered, annotated result of the record query.
AllRecords(rows, filter, order_by, gb, duplicate_only, db_function, deduplicate) ==
    Annotate(
        OrderBy(Relation(rows, filter, duplicate_only, db_function, deduplicate),
                order_by),
        gb)

\* The group statistics taken over the page alone.
AnnotatedWindow_of_page(rows, gb, limit, offset) ==
    Annotate(Window(rows, limit, offset), gb)

\* The page of an ordered relation with its group annotation: the statistics
\* of a group are those of the whole relation, the page is cut afterwards.
AnnotatedWindow(rows, gb, limit, offset) ==
    Window(Annotate(rows, gb), limit, offset)

\* Table.get_records(limit, offset, filter, order_by, group_by,
\*                   duplicate_only, db_function, deduplicate)
get_records(rows, limit, offset, filter, order_by, gb, duplicate_only, db_function, deduplicate) ==
    AnnotatedWindow(
        OrderBy(Relation(rows, filter, duplicate_only, db_function, deduplicate),
                order_by),
        gb, limit, offset)

\* process_annotated_records: the rows without their annotation, and the
\* groups of the page in the order their first row appears, each with the
\* zero-based positions of its rows.
process_annotated_records(recs) ==
    LET n == Len(recs)
        gid(i) == recs[i].group.group_id
        firsts == SelectSeq([i \in 1..n |-> i],
                            LAMBDA i : \A j \in 1..(i - 1) : gid(j) # gid(i))
        indices(i) == SelectSeq([j \in 1..n |-> j], LAMBDA j : gid(j) = gid(i))
    IN [processed_records |-> [i \in 1..n |-> recs[i].data],
        groups |->
          IF \A i \in 1..n : recs[i].group = NoGroup
          THEN [present |-> FALSE, list |-> <<>>]
          ELSE [present |-> TRUE,
                list |-> [k \in 1..Len(firsts) |->
                    [count |-> recs[firsts[k]].group.count,
                     first_value |-> recs[firsts[k]].group.first_value,
                     last_value |-> recs[firsts[k]].group.last_value,
                     result_indices |->
                        [m \in 1..Len(indices(firsts[k])) |->
                            indices(firsts[k])[m] - 1]]]]]

-----------------------------------------------------------------------------
(* Requests                                                                *)

Request(limit, offset, filter, db_function, deduplicate, order_by, grouping, duplicate_only) ==
    [limit |-> limit, offset |-> offset, filter |-> filter,
     db_function |-> db_function, deduplicate |-> deduplicate,
     order_by |-> order_by, grouping |-> grouping,
     duplicate_only |-> duplicate_only]

NoRequest == Request(Absent, Absent, None, None, FALSE, <<>>, NoGrouping, <<>>)

\* Requests that vary limit and offset alone.
WindowRequests ==
    { Request(l, o, None, None, FALSE, <<>>, NoGrouping, <<>>) :
        l \in {Absent, Text, Int_(-1), Int_(0), Int_(1), Int_(2), Int_(4), Int_(500),
              Int_(600)},
        o \in {Absent, Text, Int_(-1), Int_(1), Int_(2)} }

\* Requests with a valid specification and no grouping.
QueryRequests ==
    { Request(l, o, f, fn, d, ob, NoGrouping, du) :
        l \in {Absent, Int_(1), Int_(2)},
        o \in {Absent, Int_(1)},
        f \in {None, FilterAmes},
        fn \in {None, FunctionCenter},
        d \in BOOLEAN,
        ob \in {<<>>, <<Desc("Center")>>},
        du \in {<<>>, <<"Center">>} }

\* Requests with a valid specification and a grouping.
GroupRequests ==
    { Request(l, o, f, fd[1], fd[2], ob, g, <<>>) :
        l \in {Absent, Int_(1), Int_(2)},
        o \in {Absent, Int_(1)},
        f \in {None, FilterAmes},
        fd \in {<<None, FALSE>>, <<FunctionCenter, TRUE>>},
        ob \in {<<>>, <<Desc("Center")>>},
        g \in {GroupOn(<<"Center">>), GroupOn(<<"Center", "Status">>),
               GroupPercentile(<<"Center">>, 2)} }

\* Requests whose specification may be invalid in one or several parameters.
InvalidRequests ==
    { Request(Absent, Absent, f, None, FALSE, ob, g, <<>>) :
        f \in {None, FilterBogus, FilterBadFormat, FilterNoColumn, FilterUnresolved,
               FilterNested},
        ob \in {<<>>, <<[field |-> "Center", direction |-> "sideways"]>>,
                <<Asc("Nope")>>},
        g \in {NoGrouping, GroupOn(<<"Nope">>), GroupMode(<<"Center">>, "bogus"),
               GroupOn(<<>>)} }

\* The big table is queried by limit and offset alone.
RequestsOn(rows) ==
    IF Len(rows) > max_limit THEN WindowRequests
    ELSE WindowRequests \cup QueryRequests \cup GroupRequests \cup InvalidRequests

-----------------------------------------------------------------------------
(* RecordViewSet.list                                                      *)

NoGrouping_ == [present |-> FALSE, columns |-> <<>>, mode |-> "",
                num_groups |-> 0, ranged |-> FALSE,
                groups |-> [present |-> FALSE, list |-> <<>>]]

\* A paginator as constructed: no field is set yet.
NewPaginator == [limit |-> -1, offset |-> -1, count |-> -1, grouping |-> NoGrouping_]

NoResponse == [status |-> 0, body |-> "none", count |-> -1,
               grouping |-> NoGrouping_, results |-> <<>>, errors |-> <<>>]

FilterExceptions == {"BadDBFunctionFormat", "UnknownDBFunctionID",
                     "ReferencedColumnsDontExist"}
SortExceptions == {"BadSortFormat", "SortFieldNotFound"}
GroupExceptions == {"BadGroupFormat", "GroupFieldNotFound", "InvalidGroupType"}

\* The except clauses of list: the API exception for what the try block raised.
api_exception(e) ==
    CASE e \in FilterExceptions ->
           [status |-> 400, field |-> "filters", exception |-> e]
      [] e \in SortExceptions ->
           [status |-> 400, field |-> "order_by", exception |-> e]
      [] e \in GroupExceptions ->
           [status |-> 400, field |-> "grouping", exception |-> e]
      [] OTHER ->
           [status |-> 500, field |-> "", exception |-> e]

ErrorResponse(e) ==
    [NoResponse EXCEPT !.status = api_exception(e).status,
                       !.body = "errors",
                       !.errors = <<api_exception(e)>>]

\* A count query that is compiled from the whole specification.
count_query_error_whole(filter, order_by, gb, db_function) ==
    IF CountError(filter, db_function) # "" THEN CountError(filter, db_function)
    ELSE IF SortError(order_by, RelationColumns(db_function)) # ""
    THEN SortError(order_by, RelationColumns(db_function))
    ELSE GroupError(gb, RelationColumns(db_function))

\* TableLimitOffsetPagination.paginate_queryset: sa_num_records is not given
\* order_by or group_by, so compiling the count query raises the errors of
\* filter and db_function alone.
count_query_error(filter, order_by, gb, db_function) ==
    CountError(filter, db_function)

\* A count taken over the page instead of the whole result.
paginate_count_of_page(rows, pg, filter, db_function, deduplicate) ==
    Min(pg.limit,
        Max(0, sa_num_records(rows, filter, db_function, deduplicate) - pg.offset))

\* TableLimitOffsetPagination.paginate_queryset: the count query is given
\* filter, db_function and deduplicate.
paginate_count(rows, pg, filter, db_function, deduplicate) ==
    sa_num_records(rows, filter, db_function, deduplicate)

\* The record query given the paginator's offset as limit and its limit as
\* offset.
paginate_records_swapped(rows, pg, filter, order_by, gb, duplicate_only, db_function, deduplicate) ==
    get_records(rows, pg.offset, pg.limit, filter, order_by, gb, duplicate_only,
                db_function, deduplicate)

\* The record query not given group_by, which then keeps its default.
paginate_records_no_group_by(rows, pg, filter, order_by, gb, duplicate_only, db_function, deduplicate) ==
    get_records(rows, pg.limit, pg.offset, filter, order_by, GroupBy(NoGrouping),
                duplicate_only, db_function, deduplicate)

\* The record query not given deduplicate, which then keeps its default.
paginate_records_no_deduplicate(rows, pg, filter, order_by, gb, duplicate_only, db_function, deduplicate) ==
    get_records(rows, pg.limit, pg.offset, filter, order_by, gb, duplicate_only,
                db_function, FALSE)

\* TableLimitOffsetPagination.paginate_queryset: the record query is given
\* the paginator's limit and offset and the whole specification.
paginate_records(rows, pg, filter, order_by, gb, duplicate_only, db_function, deduplicate) ==
    get_records(rows, pg.limit, pg.offset, filter, order_by, gb, duplicate_only,
                db_function, deduplicate)

\* TableLimitOffsetGroupPagination.paginate_queryset, after the records are
\* fetched: the groups of a non-empty page, None for an empty one.
paginate_groups(recs) ==
    IF recs # <<>> THEN process_annotated_records(recs)
    ELSE [processed_records |-> <<>>, groups |-> [present |-> FALSE, list |-> <<>>]]

\* The grouping metadata without the groups of the page.
paginate_grouping_no_groups(gb, groups) ==
    IF gb.present
    THEN [present |-> TRUE, columns |-> gb.columns, mode |-> gb.mode,
          num_groups |-> gb.num_groups, ranged |-> gb.ranged,
          groups |-> [present |-> FALSE, list |-> <<>>]]
    ELSE NoGrouping_

\* The grouping metadata left out when the page has no groups.
paginate_grouping_none_without_groups(gb, groups) ==
    IF gb.present /\ groups.present
    THEN [present |-> TRUE, columns |-> gb.columns, mode |-> gb.mode,
          num_groups |-> gb.num_groups, ranged |-> gb.ranged, groups |-> groups]
    ELSE NoGrouping_

\* The grouping metadata counting the groups of the page.
paginate_grouping_num_groups_listed(gb, groups) ==
    IF gb.present
    THEN [present |-> TRUE, columns |-> gb.columns, mode |-> gb.mode,
          num_groups |-> Len(groups.list), ranged |-> gb.ranged, groups |-> groups]
    ELSE NoGrouping_

\* The grouping metadata that never reports ranged groups.
paginate_grouping_unranged(gb, groups) ==
    IF gb.present
    THEN [present |-> TRUE, columns |-> gb.columns, mode |-> gb.mode,
          num_groups |-> gb.num_groups, ranged |-> FALSE, groups |-> groups]
    ELSE NoGrouping_

\* self.grouping
paginate_grouping(gb, groups) ==
    IF gb.present
    THEN [present |-> TRUE, columns |-> gb.columns, mode |-> gb.mode,
          num_groups |-> gb.num_groups, ranged |-> gb.ranged, groups |-> groups]
    ELSE NoGrouping_

\* TableLimitOffsetGroupPagination.get_paginated_response
get_paginated_response(pg, data) ==
    [status |-> 200, body |-> "page", count |-> pg.count,
     grouping |-> pg.grouping, results |-> data, errors |-> <<>>]

\* The mapping looked up and both specifications rewritten for every request.
rewrite_calls_made_unconditional(filter_unprocessed, db_function_unprocessed) ==
    <<"mapping", "filter", "db_function">>

\* The calls _rewrite_db_function_specs makes: the lookup of the mapping
\* when a filter or a db_function is given, then one rewrite for each given;
\* a rewrite that raises ends the function.
rewrite_calls_made(filter_unprocessed, db_function_unprocessed) ==
    IF Truthy(filter_unprocessed) \/ Truthy(db_function_unprocessed)
    THEN <<"mapping">>
           \o (IF Truthy(filter_unprocessed) THEN <<"filter">> ELSE <<>>)
           \o (IF /\ Truthy(db_function_unprocessed)
                  /\ ~(/\ Truthy(filter_unprocessed)
                       /\ ~Resolvable(filter_unprocessed, column_ids_to_names))
               THEN <<"db_function">> ELSE <<>>)
    ELSE <<>>

\* No retrieve, create or destroy has been served.
NoAnswer == [op |-> "none", pk |-> 0, status |-> 0, data |-> <<>>,
             engine |-> "", code |-> "", column |-> "", before |-> <<>>]

\* The locals of a call of list that has not begun.
IdleContext ==
    [request |-> NoRequest, pc |-> "idle",
     processed |-> [filter |-> None, db_function |-> None],
     group_by |-> GroupBy(NoGrouping), paginator |-> NewPaginator,
     records |-> <<>>, engine_log |-> <<>>, response |-> NoResponse,
     rewrite_calls |-> <<>>]

\* Nothing has been requested of the table yet.
Fresh ==
    /\ request = NoRequest
    /\ pc = "idle"
    /\ processed = [filter |-> None, db_function |-> None]
    /\ group_by = GroupBy(NoGrouping)
    /\ paginator = NewPaginator
    /\ records = <<>>
    /\ engine_log = <<>>
    /\ response = NoResponse
    /\ rewrite_calls = <<>>
    /\ next_id = Len(table) + 1
    /\ deleted = {}
    /\ answer = NoAnswer
    /\ waiting = IdleContext

Init ==
    /\ table \in Tables
    /\ Fresh

\* A list request arrives: a paginator is constructed and the parameters
\* are validated by the serializer.
ListBegin(req) ==
    /\ pc = "idle"
    /\ request' = req
    /\ pc' = "rewrite"
    /\ processed' = [filter |-> None, db_function |-> None]
    /\ group_by' = GroupBy(NoGrouping)
    /\ paginator' = NewPaginator
    /\ records' = <<>>
    /\ engine_log' = <<>>
    /\ response' = NoResponse
    /\ rewrite_calls' = <<>>
    /\ UNCHANGED <<table, record_vars, waiting>>

ListRequest ==
    /\ pc = "idle"
    /\ \E req \in RequestsOn(table) : ListBegin(req)

\* _rewrite_db_function_specs(table_pk, filter_unprocessed, db_function_unprocessed)
ListRewrite ==
    /\ pc = "rewrite"
    /\ IF RewriteFails(request.filter, request.db_function)
       THEN /\ pc' = "error"
            /\ response' = ErrorResponse("UnresolvedColumnError")
            /\ UNCHANGED processed
       ELSE /\ pc' = "paginate"
            /\ processed' = rewrite_db_function_specs(request.filter,
                                                      request.db_function)
            /\ UNCHANGED response
    /\ rewrite_calls' = rewrite_calls_made(request.filter, request.db_function)
    /\ UNCHANGED <<table, request, group_by, paginator, records, engine_log>>
    /\ UNCHANGED <<record_vars, waiting>>

\* paginate_queryset up to the table lookup: the GroupBy object, self.limit
\* and self.offset.
PaginateBegin ==
    /\ pc = "paginate"
    /\ group_by' = GroupBy(request.grouping)
    /\ paginator' = [paginator EXCEPT !.limit = get_limit(request),
                                      !.offset = get_offset(request)]
    /\ pc' = "count"
    /\ UNCHANGED <<table, request, processed, records, engine_log, response>>
    /\ UNCHANGED <<rewrite_calls, record_vars, waiting>>

\* self.count = table.sa_num_records(...)
PaginateCount ==
    /\ pc = "count"
    /\ IF count_query_error(processed.filter, request.order_by, group_by,
                            processed.db_function) # ""
       THEN /\ pc' = "error"
            /\ response' = ErrorResponse(
                   count_query_error(processed.filter, request.order_by, group_by,
                                     processed.db_function))
            /\ UNCHANGED <<paginator, engine_log>>
       ELSE /\ pc' = "records"
            /\ paginator' = [paginator EXCEPT !.count =
                   paginate_count(table, paginator, processed.filter,
                                  processed.db_function, request.deduplicate)]
            /\ engine_log' = Append(engine_log, "count")
            /\ UNCHANGED response
    /\ UNCHANGED <<table, request, processed, group_by, records>>
    /\ UNCHANGED <<rewrite_calls, record_vars, waiting>>

\* return table.get_records(...)
PaginateRecords ==
    /\ pc = "records"
    /\ LET errs == RecordsErrors(processed.filter, request.order_by, group_by,
                                 processed.db_function)
       IN IF errs # {}
          THEN /\ pc' = "error"
               /\ \E e \in errs : response' = ErrorResponse(e)
               /\ UNCHANGED <<records, engine_log>>
          ELSE /\ pc' = "groups"
               /\ records' = paginate_records(table, paginator, processed.filter,
                                 request.order_by, group_by, request.duplicate_only,
                                 processed.db_function, request.deduplicate)
               /\ engine_log' = Append(engine_log, "records")
               /\ UNCHANGED response
    /\ UNCHANGED <<table, request, processed, group_by, paginator>>
    /\ UNCHANGED <<rewrite_calls, record_vars, waiting>>

\* The rest of paginate_queryset, RecordSerializer and get_paginated_response.
ListRespond ==
    /\ pc = "groups"
    /\ LET out == paginate_groups(records)
           pg == [paginator EXCEPT !.grouping =
                     paginate_grouping(group_by, out.groups)]
       IN /\ paginator' = pg
          /\ response' = get_paginated_response(pg, out.processed_records)
    /\ pc' = "done"
    /\ UNCHANGED <<table, request, processed, group_by, records, engine_log>>
    /\ UNCHANGED <<rewrite_calls, record_vars, waiting>>

\* The response is returned; the paginator and the locals of list are gone.
ListReturn ==
    /\ pc \in {"done", "error"}
    /\ pc' = "idle"
    /\ request' = NoRequest
    /\ processed' = [filter |-> None, db_function |-> None]
    /\ group_by' = GroupBy(NoGrouping)
    /\ paginator' = NewPaginator
    /\ records' = <<>>
    /\ engine_log' = <<>>
    /\ response' = NoResponse
    /\ rewrite_calls' = <<>>
    /\ UNCHANGED <<table, record_vars, waiting>>

Next ==
    \/ ListRequest
    \/ ListReturn
    \/ ListRewrite
    \/ PaginateBegin
    \/ PaginateCount
    \/ PaginateRecords
    \/ ListRespond

Spec == Init /\ [][Next]_vars

-----------------------------------------------------------------------------
(* RecordViewSet.retrieve, create and destroy, served while list requests   *)
(* are in progress. Each is one call into the table layer and is served    *)
(* in one step; the storage engine decides on every insert.                *)

\* The initial length of the tables the record requests work on, and the
\* last id the primary-key sequence hands out.
MaxRecords == 2
MaxRecordId == 3

\* A value that is NULL.
Null == "null"

\* The columns that do not accept NULL.
NotNullColumns == {"Center"}

RecordTables ==
    { MakeTable(vals) :
        vals \in SeqsUpTo({ <<"Kennedy", "Application">>, <<"Ames", "Issued">> },
                          MaxRecords) }

\* The ids a client asks for: those ever handed out, and one never used.
RecordIds == 1..(MaxRecordId + 1)

\* The data a client posts.
CreateData == { [Center |-> "Ames", Status |-> "Issued"],
                [Center |-> Null, Status |-> "Issued"] }

\* The list requests made while records are written.
RecordsRequests ==
    { Request(w[1], w[2], None, None, FALSE, <<>>, NoGrouping, <<>>) :
        w \in { <<Absent, Absent>>, <<Int_(1), Int_(1)>> } }

\* table.get_record(pk): the record, or nothing.
get_record(rows, pk) == SelectSeq(rows, LAMBDA r : r.id = pk)

\* table.delete_record(pk)
delete_record(rows, pk) == SelectSeq(rows, LAMBDA r : r.id # pk)

\* table.create_record_or_records(data), accepted by the engine.
create_record(rows, id, data) ==
    Append(rows, [id |-> id, Center |-> data.Center, Status |-> data.Status])

\* What the storage engine answers to an insert: a NULL in a column that
\* does not accept it is a not-null violation; any other insert is accepted
\* or rejected for another constraint of the table.
EngineVerdicts(data) ==
    IF \E c \in NotNullColumns : data[c] = Null
    THEN {"NotNullViolation"}
    ELSE {"ok", "IntegrityError"}

\* Every integrity error answered with the general exception.
create_exception_general(e, data) ==
    [status |-> 400, code |-> "MathesarAPIException", column |-> ""]

\* The except clause of create: a not-null violation is answered with the
\* exception that names the column of the table, any other integrity error
\* with the general one.
create_exception(e, data) ==
    IF e = "NotNullViolation"
    THEN [status |-> 400, code |-> "NotNullViolationAPIException",
          column |-> CHOOSE c \in NotNullColumns : data[c] = Null]
    ELSE [status |-> 400, code |-> "MathesarAPIException", column |-> ""]

\* A retrieve that never answers 404.
retrieve_response_found(rows, pk) ==
    [status |-> 200, code |-> "", data |-> get_record(rows, pk)]

\* retrieve: 404 when the table has no such record.
retrieve_response(rows, pk) ==
    IF get_record(rows, pk) = <<>>
    THEN [status |-> 404, code |-> "NotFound", data |-> <<>>]
    ELSE [status |-> 200, code |-> "", data |-> get_record(rows, pk)]

\* A write of the engine between the count query and the record query of
\* the list request is in the log of the request.
Logged(query) == IF pc = "records" THEN Append(engine_log, query) ELSE engine_log

RecordsInit ==
    /\ table \in RecordTables
    /\ Fresh

RecordsListRequest ==
    /\ pc = "idle"
    /\ \E req \in RecordsRequests : ListBegin(req)

Retrieve ==
    /\ \E pk \in RecordIds :
           answer' = [op |-> "retrieve", pk |-> pk,
                      status |-> retrieve_response(table, pk).status,
                      data |-> retrieve_response(table, pk).data,
                      engine |-> "",
                      code |-> retrieve_response(table, pk).code,
                      column |-> "", before |-> table]
    /\ UNCHANGED <<table, next_id, deleted, list_vars, waiting>>

Create ==
    /\ next_id <= MaxRecordId
    /\ \E data \in CreateData : \E verdict \in EngineVerdicts(data) :
         IF verdict = "ok"
         THEN /\ table' = create_record(table, next_id, data)
              /\ next_id' = next_id + 1
              /\ engine_log' = Logged("insert")
              /\ answer' = [op |-> "create", pk |-> next_id, status |-> 201,
                            data |-> get_record(table', next_id),
                            engine |-> verdict, code |-> "", column |-> "",
                            before |-> table]
         ELSE /\ answer' = [op |-> "create", pk |-> 0,
                            status |-> create_exception(verdict, data).status,
                            data |-> <<>>, engine |-> verdict,
                            code |-> create_exception(verdict, data).code,
                            column |-> create_exception(verdict, data).column,
                            before |-> table]
              /\ UNCHANGED <<table, next_id, engine_log>>
    /\ UNCHANGED <<deleted, waiting>>
    /\ UNCHANGED <<request, pc, processed, group_by, paginator, records,
                   response, rewrite_calls>>

Destroy ==
    /\ \E pk \in RecordIds :
         /\ table' = delete_record(table, pk)
         /\ deleted' = IF get_record(table, pk) # <<>>
                       THEN deleted \cup {pk} ELSE deleted
         /\ engine_log' = IF get_record(table, pk) # <<>>
                          THEN Logged("delete") ELSE engine_log
         /\ answer' = [op |-> "destroy", pk |-> pk, status |-> 204,
                       data |-> <<>>, engine |-> "", code |-> "",
                       column |-> "", before |-> table]
    /\ UNCHANGED <<next_id, waiting>>
    /\ UNCHANGED <<request, pc, processed, group_by, paginator, records,
                   response, rewrite_calls>>

RecordsNext ==
    \/ RecordsListRequest
    \/ ListReturn
    \/ ListRewrite
    \/ PaginateBegin
    \/ PaginateCount
    \/ PaginateRecords
    \/ ListRespond
    \/ Retrieve
    \/ Create
    \/ Destroy

RecordsSpec == RecordsInit /\ [][RecordsNext]_vars

-----------------------------------------------------------------------------
(* Two list requests served at once. Each call of RecordViewSet.list has   *)
(* its own locals, the paginator it constructs among them; the calls take  *)
(* turns, and the one that does not run keeps its locals in waiting.       *)

\* The locals of the call of list that runs.
Context ==
    [request |-> request, pc |-> pc, processed |-> processed,
     group_by |-> group_by, paginator |-> paginator, records |-> records,
     engine_log |-> engine_log, response |-> response,
     rewrite_calls |-> rewrite_calls]

\* One paginator that every call of list works with.
ResumedPaginator_shared(own, current) == current

\* The paginator a call works with when it runs again is the one it
\* constructed: paginator is a local of list.
ResumedPaginator(own, current) == own

ConcurrentTables == { MakeTable(vals) : vals \in [1..MaxRecords -> RowValues] }

ConcurrentRequests ==
    { Request(Int_(1), Absent, None, None, FALSE, <<>>, GroupOn(<<"Center">>), <<>>),
      Request(Absent, Int_(1), FilterAmes, None, FALSE, <<>>, NoGrouping, <<>>),
      Request(Absent, Absent, None, None, FALSE, <<>>, NoGrouping, <<>>) }

ConcurrentInit ==
    /\ table \in ConcurrentTables
    /\ Fresh

ConcurrentListRequest ==
    /\ pc = "idle"
    /\ \E req \in ConcurrentRequests : ListBegin(req)

\* The call that runs stops and the one that waits goes on.
Switch ==
    /\ waiting # Context
    /\ waiting' = Context
    /\ request' = waiting.request
    /\ pc' = waiting.pc
    /\ processed' = waiting.processed
    /\ group_by' = waiting.group_by
    /\ paginator' = ResumedPaginator(waiting.paginator, paginator)
    /\ records' = waiting.records
    /\ engine_log' = waiting.engine_log
    /\ response' = waiting.response
    /\ rewrite_calls' = waiting.rewrite_calls
    /\ UNCHANGED <<table, record_vars>>

ConcurrentNext ==
    \/ ConcurrentListRequest
    \/ ListReturn
    \/ ListRewrite
    \/ PaginateBegin
    \/ PaginateCount
    \/ PaginateRecords
    \/ ListRespond
    \/ Switch

ConcurrentSpec == ConcurrentInit /\ [][ConcurrentNext]_vars

-----------------------------------------------------------------------------
(* What a list request answers on a table that does not change while it is *)
(* served, for a specification that is valid.                              *)

list_paginator(req) ==
    [NewPaginator EXCEPT !.limit = get_limit(req), !.offset = get_offset(req)]

list_count(rows, req) ==
    LET p == rewrite_db_function_specs(req.filter, req.db_function) IN
    paginate_count(rows, list_paginator(req), p.filter, p.db_function,
                   req.deduplicate)

list_results(rows, req) ==
    LET p == rewrite_db_function_specs(req.filter, req.db_function) IN
    paginate_groups(
        paginate_records(rows, list_paginator(req), p.filter, req.order_by,
                         GroupBy(req.grouping), req.duplicate_only,
                         p.db_function, req.deduplicate)).processed_records

list_grouping(rows, req) ==
    LET p == rewrite_db_function_specs(req.filter, req.db_function) IN
    paginate_grouping(
        GroupBy(req.grouping),
        paginate_groups(
            paginate_records(rows, list_paginator(req), p.filter, req.order_by,
                             GroupBy(req.grouping), req.duplicate_only,
                             p.db_function, req.deduplicate)).groups)

WithWindow(req, l, o) == [req EXCEPT !.limit = l, !.offset = o]

-----------------------------------------------------------------------------
(* Properties                                                              *)

\* The positions of the table whose row satisfies the processed filter.
Matching == { i \in 1..Len(table) :
                processed.filter = None \/ Holds(processed.filter, table[i]) }

\* The number of rows after filter, function and deduplication, counted
\* without building the relation.
NumSatisfying ==
    IF ~request.deduplicate THEN Cardinality(Matching)
    ELSE IF processed.db_function = None
    THEN Cardinality({ table[i] : i \in Matching })
    ELSE Cardinality({ table[i][processed.db_function.args[1].value] :
                         i \in Matching })

OtherWindows ==
    {Absent, Int_(1), Int_(600)} \X {Absent, Int_(2)}

\* C1: the count a list request returns is the number of rows that satisfy
\* filter, db_function and deduplicate with no window applied, and the same
\* request with any other limit and offset returns the same count.
C1_CountInvariance ==
    pc = "done" =>
        /\ response.count = NumSatisfying
        /\ \A w \in OtherWindows :
               list_count(table, WithWindow(request, w[1], w[2])) = response.count

\* A counted result larger than the page returned, under a filter and
\* deduplication.
C1_Witness ==
    /\ pc = "done"
    /\ request.deduplicate
    /\ request.filter # None
    /\ response.count > Len(response.results)
    /\ response.count < Len(table)

\* The rows the record query of the request returns when its window is the
\* whole result: unlimited limit, offset 0.
Unwindowed ==
    paginate_records(table, [paginator EXCEPT !.limit = Len(table), !.offset = 0],
                     processed.filter, request.order_by, group_by,
                     request.duplicate_only, processed.db_function,
                     request.deduplicate)

\* C2: for every combination of filter, db_function, deduplicate and
\* duplicate_only the count returned equals the number of rows the record
\* query returns with unlimited limit and offset 0.
C2_CountIsUnwindowedLength ==
    pc = "done" => response.count = Len(Unwindowed)

\* The request asks for limit 2L with L >= 1.
DoubleLimit ==
    /\ request.limit.numeric
    /\ request.limit.value >= 2
    /\ request.limit.value % 2 = 0

HalfLimit == request.limit.value \div 2

\* The results of list(limit=L, offset=O) and of list(limit=L, offset=O+L) for
\* the request's specification, O being the offset the request asks for.
FirstHalf ==
    list_results(table, WithWindow(request, Int_(HalfLimit), Int_(paginator.offset)))
SecondHalf ==
    list_results(table, WithWindow(request, Int_(HalfLimit),
                                   Int_(paginator.offset + HalfLimit)))

Disjoint(p, q) == \A i \in 1..Len(p) : \A j \in 1..Len(q) : p[i] # q[j]

\* The rows of the result are pairwise distinct: they carry the primary key,
\* or they are deduplicated.
DistinctRows == request.db_function = None \/ request.deduplicate

Selected ==
    { i \in Matching :
        \/ request.duplicate_only = <<>>
        \/ \E j \in Matching \ {i} :
               KeyOf(table[j], request.duplicate_only)
                 = KeyOf(table[i], request.duplicate_only) }

\* The number of distinct rows of the result.
NumDistinct ==
    IF processed.db_function = None
    THEN Cardinality({ table[i] : i \in Selected })
    ELSE Cardinality({ table[i][processed.db_function.args[1].value] :
                         i \in Selected })

\* C4: under deduplicate the rows are collapsed before the window is cut:
\* no row is returned twice, the page holds
\* min(limit, max(0, distinct rows - offset)) rows, the count is that of the
\* deduplicated set, and rows A,A,B,C,C,C with limit 2 and offset 0 give
\* [A, B] and count 3.
C4_DeduplicateBeforeWindow ==
    (pc = "done" /\ request.deduplicate) =>
        /\ \A i, j \in 1..Len(response.results) :
               i # j => response.results[i] # response.results[j]
        /\ Len(response.results)
             = Min(paginator.limit, Max(0, NumDistinct - paginator.offset))
        /\ response.count = NumSatisfying
        /\ request.duplicate_only = <<>> => response.count = NumDistinct
        /\ (/\ table = DedupTable
            /\ request = Request(Int_(2), Absent, None, FunctionCenter, TRUE,
                                 <<>>, NoGrouping, <<>>))
             => /\ response.results = << [Center |-> "Ames"],
                                          [Center |-> "Armstrong"] >>
                /\ response.count = 3

\* The rows A,A,B,C,C,C deduplicated under limit 2 and offset 0.
C4_Witness ==
    /\ pc = "done"
    /\ table = DedupTable
    /\ request.deduplicate
    /\ request.db_function = FunctionCenter
    /\ paginator.limit = 2
    /\ paginator.offset = 0
    /\ Len(response.results) = 2
    /\ response.count = 3

\* The paginator has parsed limit and offset.
Parsed == pc \in {"count", "records", "groups", "done"}

\* What C5 and its amendment share: the defaults, the range of the effective
\* values, the ceiling, the floor of the offset, and no error from limit or
\* offset.
LimitOffsetCommon ==
    /\ Parsed =>
        /\ ~request.limit.present => paginator.limit = default_limit
        /\ paginator.limit >= 1 /\ paginator.limit <= max_limit
        /\ ~request.offset.present => paginator.offset = 0
        /\ paginator.offset >= 0
        /\ (request.limit.numeric /\ request.limit.value > max_limit)
             => paginator.limit = max_limit
        /\ (request.limit.numeric /\ request.limit.value \in 1..max_limit)
             => paginator.limit = request.limit.value
        /\ (request.offset.numeric /\ request.offset.value < 0)
             => paginator.offset = 0
        /\ (request.offset.numeric /\ request.offset.value >= 0)
             => paginator.offset = request.offset.value
    /\ request \in WindowRequests => pc # "error"

\* C5 as stated: a limit below the minimum becomes the minimum.
C5_LimitOffsetClamped ==
    /\ LimitOffsetCommon
    /\ (Parsed /\ request.limit.numeric /\ request.limit.value < 1)
         => paginator.limit = 1

\* C5, amended: a limit below 1, like one that is no integer, falls back to
\* default_limit; an offset that is no integer is 0.
C5_LimitOffsetEffective ==
    /\ LimitOffsetCommon
    /\ (Parsed /\ request.limit.present
          /\ (~request.limit.numeric \/ request.limit.value < 1))
         => paginator.limit = default_limit
    /\ (Parsed /\ request.offset.present /\ ~request.offset.numeric)
         => paginator.offset = 0

\* A request with limit=0 and offset=-1 answered with a page.
C5_Witness ==
    /\ pc = "done"
    /\ request.limit = Int_(0)
    /\ request.offset = Int_(-1)
    /\ paginator.limit = default_limit
    /\ paginator.offset = 0
    /\ response.status = 200

ValidationExceptions == FilterExceptions \cup SortExceptions \cup GroupExceptions

\* The request ended in a specification-validation error.
ValidationError ==
    /\ pc = "error"
    /\ response.errors[1].exception \in ValidationExceptions

\* C6 as stated: when a request ends in a specification-validation error
\* the storage engine has executed no query for it, neither the count query
\* nor the record query.
C6_NoQueryBeforeValidationError ==
    ValidationError => engine_log = <<>>

\* C6, amended: the record query has not been executed; no query at all has
\* been executed before an error of filter or db_function; the count query
\* has been executed before a sort error, and at most it before a grouping
\* error.
C6_NoRecordQueryBeforeValidationError ==
    ValidationError =>
        /\ \A k \in 1..Len(engine_log) : engine_log[k] # "records"
        /\ response.errors[1].exception \in FilterExceptions => engine_log = <<>>
        /\ response.errors[1].exception \in SortExceptions
             => engine_log = <<"count">>
        /\ response.errors[1].exception \in GroupExceptions
             => engine_log \in {<<>>, <<"count">>}

\* An unknown sort field reported after the count query ran.
C6_Witness ==
    /\ pc = "error"
    /\ response.errors[1].exception = "SortFieldNotFound"
    /\ engine_log = <<"count">>
    /\ paginator.count = Len(table)

\* The request parameter an exception of the specification originates from.
OriginatingParameter(e) ==
    CASE e \in FilterExceptions -> "filter"
      [] e \in SortExceptions -> "order_by"
      [] e \in GroupExceptions -> "grouping"
      [] OTHER -> ""

\* C7: a request with an invalid specification ends with exactly one
\* reported error of status 400 tagged with the originating parameter
\* (filter, order_by or grouping), and no page comes with the error.
C7_OneErrorTaggedWithParameter ==
    /\ ValidationError =>
        /\ response.status = 400
        /\ Len(response.errors) = 1
        /\ response.errors[1].status = 400
        /\ response.errors[1].field
             = OriginatingParameter(response.errors[1].exception)
        /\ response.body = "errors"
        /\ response.results = <<>>
        /\ response.count = -1
    /\ pc = "done" =>
        /\ response.errors = <<>>
        /\ RecordsErrors(processed.filter, request.order_by, group_by,
                         processed.db_function) = {}

\* A page that is not empty, answered to a request with a grouping.
GroupedPage ==
    /\ pc = "done"
    /\ response.grouping.present
    /\ response.results # <<>>

Groups == response.grouping.groups.list

\* The places (group, position in its result_indices) that name page index p.
PlacesOf(p) ==
    { km \in (1..Len(Groups)) \X (1..Len(response.results)) :
        /\ km[2] <= Len(Groups[km[1]].result_indices)
        /\ Groups[km[1]].result_indices[km[2]] = p }

\* Rows i and j of the page (counted from 1) are listed in one group.
SameGroup(i, j) ==
    \E k \in 1..Len(Groups) :
        /\ \E m \in 1..Len(Groups[k].result_indices) :
               Groups[k].result_indices[m] = i - 1
        /\ \E m \in 1..Len(Groups[k].result_indices) :
               Groups[k].result_indices[m] = j - 1

\* C8: in distinct mode every index 0..page_size-1 is in the result_indices
\* of exactly one group, exactly once, and two rows of the page are in the
\* same group iff they agree on every grouping column.
C8_DistinctGroupPartition ==
    (GroupedPage /\ response.grouping.mode = "distinct") =>
        /\ response.grouping.groups.present
        /\ \A k \in 1..Len(Groups) :
               /\ Len(Groups[k].result_indices) <= Len(response.results)
               /\ \A m \in 1..Len(Groups[k].result_indices) :
                      Groups[k].result_indices[m] \in 0..(Len(response.results) - 1)
        /\ \A p \in 0..(Len(response.results) - 1) : Cardinality(PlacesOf(p)) = 1
        /\ \A i, j \in 1..Len(response.results) :
               SameGroup(i, j)
                 <=> KeyOf(response.results[i], response.grouping.columns)
                       = KeyOf(response.results[j], response.grouping.columns)

\* A page of three rows in two distinct groups, one of them scattered.
C8_Witness ==
    /\ GroupedPage
    /\ response.grouping.mode = "distinct"
    /\ Len(response.results) = 3
    /\ Len(Groups) = 2
    /\ Groups[1].result_indices = <<0, 2>>
    /\ Groups[2].result_indices = <<1>>

\* C9: in both modes the groups come in the order their first member appears
\* in the page and the result_indices of each group ascend strictly; a page
\* whose Center values are Kennedy, Ames, Ames, grouped on Center in distinct
\* mode, has the groups [0] and [1, 2].
C9_GroupOrder ==
    GroupedPage =>
        /\ response.grouping.groups.present
        /\ Groups # <<>>
        /\ \A k \in 1..Len(Groups) :
               /\ Groups[k].result_indices # <<>>
               /\ \A m \in 1..(Len(Groups[k].result_indices) - 1) :
                      Groups[k].result_indices[m] < Groups[k].result_indices[m + 1]
        /\ \A k \in 1..(Len(Groups) - 1) :
               Groups[k].result_indices[1] < Groups[k + 1].result_indices[1]
        /\ Groups[1].result_indices[1] = 0
        /\ (/\ response.grouping.mode = "distinct"
            /\ response.grouping.columns = <<"Center">>
            /\ [i \in 1..Len(response.results) |-> response.results[i].Center]
                 = <<"Kennedy", "Ames", "Ames">>)
             => /\ Len(Groups) = 2
                /\ Groups[1].result_indices = <<0>>
                /\ Groups[2].result_indices = <<1, 2>>

\* The page Kennedy, Ames, Ames grouped on Center in distinct mode.
C9_Witness ==
    /\ GroupedPage
    /\ response.grouping.mode = "distinct"
    /\ response.grouping.columns = <<"Center">>
    /\ [i \in 1..Len(response.results) |-> response.results[i].Center]
         = <<"Kennedy", "Ames", "Ames">>
    /\ Len(Groups) = 2

\* A percentile page of two buckets with the later bucket met first.
C9_WitnessPercentile ==
    /\ GroupedPage
    /\ response.grouping.mode = "percentile"
    /\ Len(Groups) = 2
    /\ Groups[1].result_indices = <<0, 2>>
    /\ Groups[1].first_value = <<"Kennedy">>

\* C10 as stated: the count of every group is the length of its
\* result_indices, so the counts sum to the page size.
C10_GroupCountIsPageLocal ==
    GroupedPage =>
        /\ response.grouping.groups.present
        /\ \A k \in 1..Len(Groups) :
               Groups[k].count = Len(Groups[k].result_indices)
        /\ Cardinality(UNION { PlacesOf(p) : p \in 0..(Len(response.results) - 1) })
             = Len(response.results)

\* The grouped values of every row of the whole result, before the window.
KeysInResult ==
    LET whole == Unwindowed IN
    [i \in 1..Len(whole) |-> KeyOf(whole[i].data, response.grouping.columns)]

\* The number of rows with the grouped values keys that lie in group g.
MembersInResult(keys, g) ==
    Cardinality({ i \in 1..Len(keys) :
                    KeyLeq(g.first_value, keys[i]) /\ KeyLeq(keys[i], g.last_value) })

\* C10, amended: the count of every group is the number of rows of the whole
\* result, before the window, that belong to the group; it is at least the
\* length of its result_indices and equal to it when the page is the whole
\* result; the lengths of the result_indices sum to the page size.
C10_GroupCountIsOfWholeResult ==
    GroupedPage =>
        LET keys == KeysInResult
            gs == Groups
        IN
        /\ response.grouping.groups.present
        /\ \A k \in 1..Len(gs) :
               /\ gs[k].count = MembersInResult(keys, gs[k])
               /\ gs[k].count >= Len(gs[k].result_indices)
               /\ Len(keys) = Len(response.results)
                    => gs[k].count = Len(gs[k].result_indices)
        /\ Cardinality(UNION { PlacesOf(p) : p \in 0..(Len(response.results) - 1) })
             = Len(response.results)

\* A page of one row whose group counts two rows of the table.
C10_Witness ==
    /\ GroupedPage
    /\ Len(response.results) = 1
    /\ Len(Groups) = 1
    /\ Groups[1].count = 2
    /\ Groups[1].result_indices = <<0>>

\* A request with a grouping has been answered with a page.
GroupedResponse == pc = "done" /\ group_by.present

\* The grouping of a page that is not empty carries the list of its groups.
GroupsOfNonEmptyPage ==
    (GroupedResponse /\ response.results # <<>>) =>
        /\ response.grouping.present
        /\ response.grouping.groups.present
        /\ response.grouping.groups.list # <<>>

\* C11 as stated: when grouping is requested and the window is empty the
\* grouping field of the response is null, not an object; when the window
\* is not empty it carries the group list.
C11_EmptyWindowNullGrouping ==
    /\ (GroupedResponse /\ response.results = <<>>) => ~response.grouping.present
    /\ GroupsOfNonEmptyPage

\* C11, amended: when grouping is requested and the window is empty the
\* grouping field is still an object with the columns, mode, num_groups and
\* ranged of the request, and its groups entry is null, not an empty list;
\* when the window is not empty it carries the group list.
C11_EmptyWindowNullGroups ==
    /\ (GroupedResponse /\ response.results = <<>>) =>
           /\ response.grouping.present
           /\ response.grouping.columns = request.grouping.columns
           /\ ~response.grouping.groups.present
    /\ GroupsOfNonEmptyPage

\* A grouped request whose offset is past the end of a table with rows.
C11_Witness ==
    /\ GroupedResponse
    /\ response.results = <<>>
    /\ response.count > 0
    /\ response.grouping.present
    /\ ~response.grouping.groups.present

\* C12 as stated: the num_groups of the grouping metadata is the number of
\* groups listed in the response, which is at most the requested num_groups.
C12_NumGroupsIsGroupsListed ==
    GroupedPage =>
        /\ response.grouping.num_groups = Len(Groups)
        /\ "num_groups" \in request.grouping.keys
             => response.grouping.num_groups <= request.grouping.num_groups

\* C12, amended: the num_groups of the grouping metadata is the num_groups
\* of the request (the default when it gives none), whatever number of
\* groups the response lists; in percentile mode the groups listed are at
\* most that many.
C12_NumGroupsIsRequested ==
    GroupedPage =>
        /\ "num_groups" \in request.grouping.keys
             => response.grouping.num_groups = request.grouping.num_groups
        /\ "num_groups" \notin request.grouping.keys
             => response.grouping.num_groups = default_num_groups
        /\ response.grouping.mode = "percentile"
             => Len(Groups) <= response.grouping.num_groups

\* A percentile page that lists one group while two were requested.
C12_Witness ==
    /\ GroupedPage
    /\ response.grouping.mode = "percentile"
    /\ request.grouping.num_groups = 2
    /\ response.grouping.num_groups = 2
    /\ Len(Groups) = 1

\* C13: the columns, mode, num_groups and ranged of the grouping metadata
\* are those of the GroupBy object built from the grouping of the request,
\* ranged being true for percentile and false for distinct mode, whatever
\* rows the page holds.
C13_GroupingMetadataOfGroupBy ==
    GroupedResponse =>
        LET gb == GroupBy(request.grouping) IN
        /\ response.grouping.present
        /\ response.grouping.columns = gb.columns
        /\ response.grouping.mode = gb.mode
        /\ response.grouping.num_groups = gb.num_groups
        /\ response.grouping.ranged = gb.ranged
        /\ response.grouping.columns = request.grouping.columns
        /\ response.grouping.mode
             = (IF "mode" \in request.grouping.keys
                THEN request.grouping.mode ELSE "distinct")
        /\ response.grouping.ranged = (response.grouping.mode = "percentile")

\* A percentile request answered with ranged metadata.
C13_Witness ==
    /\ GroupedResponse
    /\ request.grouping = GroupPercentile(<<"Center">>, 2)
    /\ response.grouping.ranged
    /\ response.grouping.mode = "percentile"
    /\ response.grouping.num_groups = 2
    /\ response.results # <<>>

RECURSIVE Rewritten(_, _)
\* Tree b is tree a with every column_id leaf replaced by the column_name
\* leaf of the mapped name and every other node as it was.
Rewritten(a, b) ==
    IF a.id = "column_id"
    THEN /\ a.value \in DOMAIN column_ids_to_names
         /\ b = [id |-> "column_name", args |-> <<>>,
                 value |-> column_ids_to_names[a.value]]
    ELSE /\ b.id = a.id
         /\ b.value = a.value
         /\ Len(b.args) = Len(a.args)
         /\ \A i \in 1..Len(a.args) : Rewritten(a.args[i], b.args[i])

RECURSIVE ColumnIds(_)
\* The external column identifiers a tree refers to.
ColumnIds(spec) ==
    (IF spec.id = "column_id" THEN {spec.value} ELSE {})
      \cup UNION { ColumnIds(spec.args[i]) : i \in 1..Len(spec.args) }

\* The rewriting of the request has succeeded.
RewriteDone == pc \in {"paginate", "count", "records", "groups", "done"}

\* The filters a client sends, with their column-id references.
ClientFilters == {None, FilterAmes, FilterBogus, FilterBadFormat, FilterNoColumn,
                  FilterUnresolved, FilterNested}

\* C14: the filter handed to the queries is the client's filter rewritten
\* against the table's mapping: the same tree with every column-id reference
\* replaced by the mapped name, no external identifier left, every other
\* node unchanged, the client's tree as it was sent; a tree with an
\* unresolvable reference gives an error, and no rewritten tree and no
\* query.
C14_RewriteCorrectness ==
    /\ request.filter \in ClientFilters
    /\ (RewriteDone /\ request.filter # None) =>
           /\ Rewritten(request.filter, processed.filter)
           /\ ColumnIds(processed.filter) = {}
           /\ ColumnIds(request.filter) \subseteq DOMAIN column_ids_to_names
    /\ (RewriteDone /\ request.filter = None) => processed.filter = None
    /\ (pc # "idle" /\ request.filter # None
          /\ ~(ColumnIds(request.filter) \subseteq DOMAIN column_ids_to_names)) =>
           /\ pc \in {"rewrite", "error"}
           /\ processed.filter = None
           /\ engine_log = <<>>
           /\ pc = "error" =>
                /\ response.errors[1].exception = "UnresolvedColumnError"
                /\ response.results = <<>>

\* A nested filter with two column-id references rewritten and queried.
C14_Witness ==
    /\ pc = "done"
    /\ request.filter = FilterNested
    /\ ColumnIds(request.filter) = {"#2", "#3"}
    /\ processed.filter
         = Node("and", <<Node("equal", <<ColumnName("Center"), Literal("Ames")>>),
                         Node("not", <<Node("empty", <<ColumnName("Status")>>)>>)>>)
    /\ engine_log = <<"count", "records">>

\* A filter with an unresolvable reference answered with an error.
C14_WitnessUnresolved ==
    /\ pc = "error"
    /\ request.filter = FilterUnresolved
    /\ response.errors[1].exception = "UnresolvedColumnError"

\* The rewriting of one specification against the table's mapping.
RewriteOf(spec) ==
    rewrite_db_function_spec_column_ids_to_names(column_ids_to_names, spec)

\* C19: rewriting happens iff the request supplies a filter or a
\* db_function: with neither there is no mapping lookup, no rewriting, and
\* filter and db_function are None; with one of them only that one is
\* rewritten and the other stays None; with both each is rewritten against
\* the same mapping.
C19_RewriteOnlyWhatIsSupplied ==
    RewriteDone =>
        /\ (request.filter = None /\ request.db_function = None) =>
               /\ rewrite_calls = <<>>
               /\ processed = [filter |-> None, db_function |-> None]
        /\ (request.filter # None /\ request.db_function = None) =>
               /\ rewrite_calls = <<"mapping", "filter">>
               /\ processed.filter = RewriteOf(request.filter)
               /\ processed.db_function = None
        /\ (request.filter = None /\ request.db_function # None) =>
               /\ rewrite_calls = <<"mapping", "db_function">>
               /\ processed.filter = None
               /\ processed.db_function = RewriteOf(request.db_function)
        /\ (request.filter # None /\ request.db_function # None) =>
               /\ rewrite_calls = <<"mapping", "filter", "db_function">>
               /\ processed.filter = RewriteOf(request.filter)
               /\ processed.db_function = RewriteOf(request.db_function)

\* A request with a db_function and no filter, answered with a page.
C19_Witness ==
    /\ pc = "done"
    /\ request.filter = None
    /\ request.db_function = FunctionCenter
    /\ rewrite_calls = <<"mapping", "db_function">>
    /\ processed.filter = None
    /\ processed.db_function = Node("identity", <<ColumnName("Center")>>)

\* A request with neither, answered with a page and no lookup.
C19_WitnessNeither ==
    /\ pc = "done"
    /\ request.filter = None
    /\ request.db_function = None
    /\ rewrite_calls = <<>>

\* The record of the table before the last write that had the id asked for.
RecordBefore == get_record(answer.before, answer.pk)

C16_CreateRejected ==
    answer.op = "create" =>
        /\ answer.status = 201 <=> answer.engine = "ok"
        /\ answer.engine # "ok" =>
               /\ answer.status = 400
               /\ answer.data = <<>>
               /\ table = answer.before
        /\ answer.engine = "NotNullViolation" =>
               /\ answer.code = "NotNullViolationAPIException"
               /\ answer.column \in NotNullColumns
        /\ answer.engine = "IntegrityError" =>
               /\ answer.code = "MathesarAPIException"
               /\ answer.column = ""
        /\ answer.engine = "ok" =>
               /\ Len(table) = Len(answer.before) + 1
               /\ answer.data = <<table[Len(table)]>>

\* A create with NULL for Center rejected.
C16_Witness ==
    /\ answer.op = "create"
    /\ answer.engine = "NotNullViolation"
    /\ answer.status = 400
    /\ answer.column = "Center"
    /\ table = answer.before
    /\ table # <<>>

\* A create rejected for another constraint.
C16_WitnessOther ==
    /\ answer.op = "create"
    /\ answer.engine = "IntegrityError"
    /\ answer.status = 400
    /\ answer.column = ""

\* The places of a query in the engine log of the request.
PlacesInLog(query) == { k \in 1..Len(engine_log) : engine_log[k] = query }

\* No record was created or deleted between the count and the record query.
NoWriteBetween ==
    \E k \in 1..(Len(engine_log) - 1) :
        engine_log[k] = "count" /\ engine_log[k + 1] = "records"

\* What the length of the page is when count and page are of one table.
PageLengthOfCount ==
    Min(paginator.limit, Max(0, response.count - paginator.offset))

C17_WitnessCreate ==
    /\ pc = "done"
    /\ engine_log = <<"count", "insert", "records">>
    /\ Len(response.results) # PageLengthOfCount

\* The response of a call of list with the locals c is the one its request
\* gets when it is served alone.
ServedAlone(c) ==
    c.pc = "done" =>
        /\ c.paginator.limit = get_limit(c.request)
        /\ c.paginator.offset = get_offset(c.request)
        /\ c.paginator.count = c.response.count
        /\ c.response.count = list_count(table, c.request)
        /\ c.response.results = list_results(table, c.request)
        /\ c.response.grouping = list_grouping(table, c.request)
        /\ c.request.grouping = NoGrouping => ~c.response.grouping.present

\* C18: no pagination state survives a request or is shared between
\* requests: however two list requests are interleaved, the count, limit,
\* offset and grouping of each response are those of its own request, and a
\* request without grouping reports no grouping metadata.
C18_NoSharedPaginationState ==
    /\ ServedAlone(Context)
    /\ ServedAlone(waiting)
    /\ pc = "idle" => paginator = NewPaginator

\* Two interleaved requests answered, one grouped and one not, with
\* different counts.
C18_Witness ==
    /\ pc = "done"
    /\ waiting.pc = "done"
    /\ request.grouping = NoGrouping
    /\ waiting.request.grouping # NoGrouping
    /\ ~response.grouping.present
    /\ waiting.response.grouping.present
    /\ response.count # waiting.response.count
    /\ paginator.limit # waiting.paginator.limit

====
